---- MODULE Spec2Model ----
(***************************************************************************)
(* A model of ResClient (the RES-Client protocol implementation) and of    *)
(* ResCollection: the resource cache with its reference counts, the        *)
(* request/response correlation, the collection diff used on resync and    *)
(* the connection life cycle.                                              *)
(*                                                                         *)
(* JavaScript runs one task at a time.  Every action below is one task     *)
(* (a user call, a transport callback, a timer) together with the promise  *)
(* reactions it queues, which run before the next task starts.  The code   *)
(* of a task is written as a function from a state record to a state       *)
(* record; the field err says that an exception is propagating, and a      *)
(* statement that follows a throwing one is skipped.                       *)
(***************************************************************************)
EXTENDS Integers, Sequences, FiniteSets, TLC

(* ------------------------------ bounds -------------------------------- *)

\* longest sequence handed to _patchDiff in the diff specification
MaxLen == 3
\* longest props object handed to setModel in the setModel specification
MaxProps == 2
\* transports (WebSocket objects) created in a run
MaxSock == 3
\* transports created in a run of the cache and of the connection
\* specifications, which have more operations than the getResource one
MaxConn == 2
\* requests issued in a run, sent or waiting for the connection
MaxReq == 3
\* CacheItem objects alive at a time (cached, or held by a pending callback)
MaxObj == 4
\* direct listeners on one resource
MaxDirect == 1
\* stale timers pending for one resource, reconnect timers pending
MaxTimers == 1
\* longest collection snapshot the server sends, longest collection
MaxSnap == 2
\* indirect references counted on one resource
MaxIndirect == 1

(* ------------------------------ resources ----------------------------- *)

Models == {"m1", "m2"}
Colls  == {"c1"}
Rids   == Models \cup Colls
\* the resource ids in a fixed order
RidSeq == <<"c1", "m1", "m2">>

(* ------------------------------- state -------------------------------- *)

VARIABLES
    \* the fields of the ResClient
    tryConnect, connected, ws, requests, reqId, cache, connectPromise,
    connectCallback,
    \* the order of the keys of this.cache (the order for...in visits them)
    keys,
    \* the CacheItem objects: those in the cache and those a pending promise
    \* reaction still holds
    items,
    \* the timers set by _setStale (per rid) and by _reconnect
    staleTimers, reconnectTimers,
    \* the onConnect hooks whose promise is pending
    hooks,
    \* the _sendNow calls waiting for the connect promise
    waiters,
    \* the WebSocket objects created so far and their number
    socks, nsock,
    \* what the last task did: the events it emitted, the cache entries it
    \* deleted, the frames it wrote, the resources it called _syncResource
    \* for, and the task itself
    events, removed, wire, synced, op,
    \* the requests issued, in order (the id of each and what became of its
    \* write), and the ids of those answered
    issued, answered,
    \* the input and the result of _patchDiff (diff specification)
    diff,
    \* the objects of the caller of setModel (setModel specification): the
    \* props drawn, the object handed over, the same with the delete sentinel
    \* written out, and the number of calls made
    setm

clientVars ==
    <<tryConnect, connected, ws, requests, reqId, cache, connectPromise,
      connectCallback, keys, items, staleTimers, reconnectTimers, hooks,
      waiters, socks, nsock, events, removed, wire, synced, op, issued,
      answered>>

vars == <<clientVars, diff, setm>>

(* --------------------------- JavaScript values ------------------------ *)

\* the value undefined where a number is expected (an index)
Undefined == -1
\* the value undefined where a resource id is expected (an array read)
UndefinedId == "undefined"

Max(x, y) == IF x >= y THEN x ELSE y
Min(x, y) == IF x <= y THEN x ELSE y

\* a[i] of a JavaScript array, indices from 0; undefined outside the array
At0(a, i) == IF i >= 0 /\ i < Len(a) THEN a[i + 1] ELSE UndefinedId

\* Array.prototype.slice(start, end): negative arguments count from the end
slice(a, start, end) ==
    LET n  == Len(a)
        k  == IF start < 0 THEN Max(n + start, 0) ELSE Min(start, n)
        e  == IF end < 0 THEN Max(n + end, 0) ELSE Min(end, n)
    IN  IF e > k THEN SubSeq(a, k + 1, e) ELSE <<>>

\* ToIntegerOrInfinity of a splice start argument: undefined becomes 0
ToStart(a, idx) ==
    IF idx = Undefined THEN 0
    ELSE IF idx < 0 THEN Max(Len(a) + idx, 0) ELSE Min(idx, Len(a))

\* Array.prototype.splice(idx, 1)
spliceOut(a, idx) ==
    LET k == ToStart(a, idx)
    IN  IF k < Len(a) THEN SubSeq(a, 1, k) \o SubSeq(a, k + 2, Len(a)) ELSE a

\* Array.prototype.splice(idx, 0, x)
spliceIn(a, idx, x) ==
    LET k == ToStart(a, idx)
    IN  SubSeq(a, 1, k) \o <<x>> \o SubSeq(a, k + 1, Len(a))

\* the values the properties of a props object hold: undefined, null, a
\* number, an object {action: v}
Undef        == [t |-> "undefined", v |-> ""]
Null         == [t |-> "null", v |-> ""]
Num(n)       == [t |-> "number", v |-> n]
ActionObj(v) == [t |-> "object", v |-> v]

\* an object is the sequence of its <<key, value>> pairs, in key order.
\* obj[key] = val
SetProp(obj, key, val) ==
    IF \E i \in 1..Len(obj) : obj[i][1] = key
    THEN [i \in 1..Len(obj) |-> IF obj[i][1] = key THEN <<key, val>> ELSE obj[i]]
    ELSE Append(obj, <<key, val>>)

\* Object.assign(target, source), from the k-th key of source
RECURSIVE ObjectAssign(_, _, _)
ObjectAssign(target, source, k) ==
    IF k > Len(source) THEN target
    ELSE ObjectAssign(SetProp(target, source[k][1], source[k][2]), source, k + 1)

\* JSON.stringify of a value, as the tokens of the text
JsonValue(x) ==
    IF x.t = "null" THEN <<"null">>
    ELSE IF x.t = "number" THEN <<x.v>>
    ELSE <<"{", "action", ":", x.v, "}">>

\* JSON.stringify of the members of an object from the k-th: a key whose
\* value is undefined is left out
RECURSIVE JsonMembers(_, _, _)
JsonMembers(obj, k, first) ==
    IF k > Len(obj) THEN <<>>
    ELSE IF obj[k][2].t = "undefined" THEN JsonMembers(obj, k + 1, first)
    ELSE (IF first THEN <<>> ELSE <<",">>) \o <<obj[k][1], ":">>
         \o JsonValue(obj[k][2]) \o JsonMembers(obj, k + 1, FALSE)

Stringify(obj) == <<"{">> \o JsonMembers(obj, 1, TRUE) \o <<"}">>

(* ------------------------------ _patchDiff ---------------------------- *)

RECURSIVE TrimStart(_, _, _)
\* while (s < m && s < n && a[s] === b[s]) s++
TrimStart(a, b, s) ==
    IF s < Len(a) /\ s < Len(b) /\ At0(a, s) = At0(b, s)
    THEN TrimStart(a, b, s + 1)
    ELSE s

RECURSIVE TrimEnd(_, _, _, _, _)
\* while (s <= m && s <= n && a[m - 1] === b[n - 1]) { m--; n--; }
TrimEnd(a, b, s, m, n) ==
    IF s <= m /\ s <= n /\ At0(a, m - 1) = At0(b, n - 1)
    THEN TrimEnd(a, b, s, m - 1, n - 1)
    ELSE <<m, n>>

\* the matrix c of the longest common subsequence lengths of aa and bb
RECURSIVE LcsCell(_, _, _, _)
LcsCell(aa, bb, i, j) ==
    IF i = 0 \/ j = 0 THEN 0
    ELSE IF aa[i] = bb[j] THEN LcsCell(aa, bb, i - 1, j - 1) + 1
    ELSE Max(LcsCell(aa, bb, i, j - 1), LcsCell(aa, bb, i - 1, j))

LcsMatrix(aa, bb) ==
    [i \in 0..Len(aa) |-> [j \in 0..Len(bb) |-> LcsCell(aa, bb, i, j)]]

\* for (i = a.length - 1; i >= s + m; i--) onKeep(a[i], i, i - m + n, i)
RECURSIVE KeepTail(_, _, _, _, _)
KeepTail(a, i, s, m, n) ==
    IF i >= s + m
    THEN <<[op |-> "keep", id |-> At0(a, i), m |-> i, n |-> i - m + n, idx |-> i]>>
         \o KeepTail(a, i - 1, s, m, n)
    ELSE <<>>

\* for (i = s - 1; i >= 0; i--) onKeep(a[i], i, i, i)
RECURSIVE KeepHead(_, _)
KeepHead(a, i) ==
    IF i >= 0
    THEN <<[op |-> "keep", id |-> At0(a, i), m |-> i, n |-> i, idx |-> i]>>
         \o KeepHead(a, i - 1)
    ELSE <<>>

\* the backward walk through the matrix: the callbacks it makes, the adds
\* it defers and the number r of removes
RECURSIVE Walk(_, _, _, _, _, _, _, _, _, _)
Walk(aa, bb, c, s, i, j, idx, r, calls, adds) ==
    LET m == i - 1
        n == j - 1
    IN  IF i > 0 /\ j > 0 /\ aa[i] = bb[j]
        THEN Walk(aa, bb, c, s, i - 1, j - 1, idx - 1, r,
                  Append(calls, [op |-> "keep", id |-> aa[i], m |-> m + s,
                                 n |-> n + s, idx |-> idx - 1]),
                  adds)
        ELSE IF j > 0 /\ (i = 0 \/ c[i][n] >= c[m][j])
        THEN Walk(aa, bb, c, s, i, j - 1, idx, r, calls,
                  Append(adds, <<n, idx, r>>))
        ELSE IF i > 0 /\ (j = 0 \/ c[i][n] < c[m][j])
        THEN Walk(aa, bb, c, s, i - 1, j, idx - 1, r + 1,
                  Append(calls, [op |-> "remove", id |-> aa[i], m |-> m + s,
                                 idx |-> idx - 1]),
                  adds)
        ELSE [calls |-> calls, adds |-> adds, r |-> r]

\* the adds made at the indexes they had before the removes were made
RECURSIVE DoAddsUnshifted(_, _, _, _, _)
DoAddsUnshifted(bb, adds, s, r, i) ==
    IF i >= 1
    THEN <<[op |-> "add", id |-> At0(bb, adds[i][1]), n |-> adds[i][1] + s,
            idx |-> adds[i][2] + adds[i][3] + Len(adds) - i]>>
         \o DoAddsUnshifted(bb, adds, s, r, i - 1)
    ELSE <<>>

\* for (i = len; i >= 0; i--) onAdd(bb[n], n + s, idx - r + j + len - i)
RECURSIVE DoAdds(_, _, _, _, _)
DoAdds(bb, adds, s, r, i) ==
    IF i >= 1
    THEN LET n   == adds[i][1]
             idx == adds[i][2]
             j   == adds[i][3]
         IN  <<[op |-> "add", id |-> At0(bb, n), n |-> n + s,
                idx |-> idx - r + j + Len(adds) - i]>>
             \o DoAdds(bb, adds, s, r, i - 1)
    ELSE <<>>

\* aa, bb, m and n once the matches at the start (s of them) and at the
\* end (down to mn) are trimmed
Trimmed(a, b, s, mn) ==
    [aa |-> IF s > 0 \/ mn[1] < Len(a) THEN slice(a, s, mn[1]) ELSE a,
     bb |-> IF s > 0 \/ mn[2] < Len(b) THEN slice(b, s, mn[2]) ELSE b,
     m  |-> IF s > 0 \/ mn[1] < Len(a) THEN Len(slice(a, s, mn[1])) ELSE mn[1],
     n  |-> IF s > 0 \/ mn[2] < Len(b) THEN Len(slice(b, s, mn[2])) ELSE mn[2]]

\* the calls in the order _patchDiff makes them: the keeps of the trimmed
\* end, the walk w, the keeps of the trimmed start, the deferred adds
Callbacks(a, s, t, w) ==
    KeepTail(a, Len(a) - 1, s, t.m, t.n) \o w.calls \o KeepHead(a, s - 1)
        \o DoAdds(t.bb, w.adds, s, w.r, Len(w.adds))

\* _patchDiff from the matrix on
PatchWalk(a, s, t) ==
    Callbacks(a, s, t, Walk(t.aa, t.bb, LcsMatrix(t.aa, t.bb), s, t.m, t.n,
                            t.m + s, 0, <<>>, <<>>))

\* _patchDiff from the second trim on
PatchTrim(a, b, s) ==
    PatchWalk(a, s, Trimmed(a, b, s, TrimEnd(a, b, s, Len(a), Len(b))))

\* _patchDiff(a, b, onKeep, onAdd, onRemove): the calls of the three
\* callbacks, in the order they are made
_patchDiff(a, b) == PatchTrim(a, b, TrimStart(a, b, 0))

\* what a listener that replays the remove and add calls on a copy of a
\* ends with
RECURSIVE Replay(_, _, _)
Replay(list, calls, k) ==
    IF k > Len(calls) THEN list
    ELSE IF calls[k].op = "remove"
         THEN Replay(spliceOut(list, calls[k].idx), calls, k + 1)
    ELSE IF calls[k].op = "add"
         THEN Replay(spliceIn(list, calls[k].idx, calls[k].id), calls, k + 1)
    ELSE Replay(list, calls, k + 1)

(* ------------------------------ CacheItem ----------------------------- *)

\* a CacheItem as its constructor leaves it; item "null" is no item yet.
\* For a collection item, list is ResCollection._list and linit says that
\* _list is an array (FALSE: it is still null)
NewItem(rid) ==
    [rid |-> rid, direct |-> 0, indirect |-> 0, subscribed |-> FALSE,
     promise |-> FALSE, item |-> "null", list |-> <<>>, linit |-> FALSE]

\* a slot of the heap that holds no object
NoItem == NewItem("")

setSubscribed(s, o, v) == [s EXCEPT !.items[o].subscribed = v]
setPromise(s, o) ==
    IF s.items[o].item = "null" THEN [s EXCEPT !.items[o].promise = TRUE] ELSE s
setItem(s, o, kind, list, linit) ==
    [s EXCEPT !.items[o].item = kind, !.items[o].list = list,
              !.items[o].linit = linit, !.items[o].promise = FALSE]
addIndirect(s, o) ==
    IF s.items[o].indirect >= MaxIndirect THEN [s EXCEPT !.ovf = TRUE]
    ELSE [s EXCEPT !.items[o].indirect = @ + 1]
removeIndirect(s, o) == [s EXCEPT !.items[o].indirect = @ - 1]
addDirect(s, o) ==
    IF s.items[o].direct >= MaxDirect THEN [s EXCEPT !.ovf = TRUE]
    ELSE [s EXCEPT !.items[o].direct = @ + 1]

\* an exception is propagating, or the run has left the model's bounds
Halt(s) == s.err \/ s.ovf

throw(s) == [s EXCEPT !.err = TRUE]

emit(s, e) == [s EXCEPT !.events = Append(@, e)]

clearErr(s) == [s EXCEPT !.err = FALSE]

\* the statements F that follow those that led to t: they are skipped when
\* an exception is propagating
Then(t, F(_)) == IF Halt(t) THEN t ELSE F(t)

\* try { ... } catch { H }, and promise.catch(H): t is where the try block
\* led
Catch(t, H(_)) == IF t.ovf \/ ~t.err THEN t ELSE H(clearErr(t))

(* ------------------------------ the cache ----------------------------- *)

\* this.cache[rid] = new CacheItem(rid, ...): the object takes the first
\* free slot of the heap, the key goes last in the object's key order
NewCacheItem(s, rid, subscribed) ==
    LET free == {o \in 1..MaxObj : s.items[o] = NoItem}
    IN  IF free = {} THEN [s EXCEPT !.ovf = TRUE]
        ELSE LET o == CHOOSE x \in free : \A y \in free : x <= y
             IN  [s EXCEPT !.items[o] = [NewItem(rid) EXCEPT !.subscribed = subscribed],
                           !.cache[rid] = o,
                           !.keys = IF s.cache[rid] = 0 THEN Append(@, rid) ELSE @]

\* delete this.cache[rid]: the entry under the key rid goes, whichever
\* object it is; removed keeps what that object was when it went
deleteCache(s, rid) ==
    LET o == s.cache[rid]
    IN  IF o = 0 THEN s
        ELSE [s EXCEPT !.cache[rid] = 0,
                       !.keys = SelectSeq(@, LAMBDA k : k # rid),
                       !.removed = Append(@, [rid |-> rid,
                                              direct |-> s.items[o].direct,
                                              indirect |-> s.items[o].indirect,
                                              subscribed |-> s.items[o].subscribed])]

\* _setStale without the setTimeout
_setStaleNoTimer(s, rid) == s

_setStale(s, rid) ==
    IF ~s.connected THEN s
    ELSE IF s.staleTimers[rid] >= MaxTimers THEN [s EXCEPT !.ovf = TRUE]
    ELSE [s EXCEPT !.staleTimers[rid] = @ + 1]

RECURSIVE _tryDelete(_, _)
RECURSIVE ReleaseModels(_, _, _)

\* the loop of _tryDelete over the models of a collection, from its k-th
ReleaseModels(s, list, k) ==
    IF Halt(s) \/ k > Len(list) THEN s
    ELSE IF ~list[k].model THEN throw(s)
    ELSE LET c == s.cache[list[k].rid]
         IN  IF c = 0 THEN throw(s)
             ELSE ReleaseModels(_tryDelete(removeIndirect(s, c), c), list, k + 1)

_tryDelete(s, o) ==
    LET it == s.items[o]
    IN  IF it.indirect # 0 THEN s
        ELSE IF it.direct # 0
             THEN IF ~it.subscribed THEN _setStale(s, it.rid) ELSE s
        ELSE IF it.subscribed THEN s
        ELSE IF it.item = "collection"
             THEN IF ~it.linit THEN throw(s)
                  ELSE Then(ReleaseModels(s, it.list, 1),
                            LAMBDA t : deleteCache(t, it.rid))
        ELSE deleteCache(s, it.rid)

(* ---------------------- snapshots and collection events --------------- *)

\* the data of a model, and of a collection of the models rids (each with
\* its data)
ModelData       == [coll |-> FALSE, rids |-> <<>>]
\* the result {rid, data} of a call of new: rids holds the rid of the model
\* the server has created
CreatedData(rid) == [coll |-> FALSE, rids |-> <<rid>>]
CollData(rids)  == [coll |-> TRUE, rids |-> rids]

\* the list a collection factory is handed: the models of the snapshot
ModelsOf(rids) == [i \in 1..Len(rids) |-> [rid |-> rids[i], model |-> TRUE]]

RECURSIVE _getCachedResource(_, _, _, _, _)
RECURSIVE _syncResource(_, _, _)
RECURSIVE IngestModels(_, _, _)
RECURSIVE ApplyCalls(_, _, _, _)
RECURSIVE _handleAddEvent(_, _, _, _)

\* data.map(m => this._getCachedResource(m.rid, m.data, true)), from the k-th
IngestModels(s, rids, k) ==
    IF Halt(s) \/ k > Len(rids) THEN s
    ELSE IngestModels(_getCachedResource(s, rids[k], ModelData, TRUE, "default"),
                      rids, k + 1)

\* _getCachedResource from setItem on: o has no item yet.  fac is the
\* collectionFactory: "default" is defaultCollectionFactory, whose collection
\* has no list yet; "init" is a factory of the caller that also hands the
\* models to ResCollection.__init
FillItem(s, o, data, fac) ==
    IF data.coll
    THEN Then(IngestModels(s, data.rids, 1),
              LAMBDA t : setItem(t, o, "collection",
                                 IF fac = "init" THEN ModelsOf(data.rids) ELSE <<>>,
                                 fac = "init"))
    ELSE setItem(s, o, "model", <<>>, FALSE)

\* _getCachedResource once a CacheItem without item is in the cache
CountAndFill(s, rid, data, indirect, fac) ==
    Then(IF indirect THEN addIndirect(s, s.cache[rid]) ELSE s,
         LAMBDA t : FillItem(t, t.cache[rid], data, fac))

_getCachedResource(s, rid, data, indirect, fac) ==
    LET o == s.cache[rid]
    IN  IF o # 0 /\ s.items[o].item # "null"
        THEN Then(_syncResource(s, o, data),
                  LAMBDA t : IF indirect THEN addIndirect(t, o) ELSE t)
        ELSE Then(IF o # 0 THEN s ELSE NewCacheItem(s, rid, FALSE),
                  LAMBDA t : CountAndFill(t, rid, data, indirect, fac))

\* what list[idx] reads where there is no element: undefined
NoElement == [rid |-> UndefinedId, model |-> FALSE]

\* ResCollection.__remove(idx): the list it leaves and the item it returns
__remove(list, idx) == spliceOut(list, idx)
Removed(list, idx) ==
    IF idx # Undefined /\ idx >= 0 /\ idx < Len(list) THEN list[idx + 1]
    ELSE NoElement

\* ResCollection.__add(item, idx) as _handleAddEvent calls it, with three
\* arguments (rid, model, idx): item is the rid, a string, and idx is the
\* model, an object, which splice reads as the index 0
__add(list, rid) == spliceIn(list, 0, [rid |-> rid, model |-> FALSE])

\* _handleRemoveEvent after the emit: item.getResourceId() throws on
\* undefined and on a string
ReleaseRemoved(s, item) ==
    IF ~item.model THEN throw(s)
    ELSE IF s.cache[item.rid] = 0 THEN throw(s)
    ELSE _tryDelete(removeIndirect(s, s.cache[item.rid]), s.cache[item.rid])

_handleRemoveEvent(s, o, idx) ==
    LET it == s.items[o]
    IN  IF it.item # "collection" THEN throw(s)
        ELSE IF ~it.linit THEN throw(s)
        ELSE ReleaseRemoved(
                 emit([s EXCEPT !.items[o].list = __remove(@, idx)],
                      [ev |-> "remove", on |-> it.rid,
                       item |-> Removed(it.list, idx).rid,
                       model |-> Removed(it.list, idx).model, idx |-> idx]),
                 Removed(it.list, idx))

_handleAddEvent(s, o, rid, idx) ==
    IF s.items[o].item # "collection" THEN throw(s)
    ELSE Then(_getCachedResource(s, rid, ModelData, TRUE, "default"),
              LAMBDA t : IF ~t.items[o].linit THEN throw(t)
                         ELSE emit([t EXCEPT !.items[o].list = __add(@, rid)],
                                   [ev |-> "add", on |-> t.items[o].rid,
                                    item |-> rid, model |-> TRUE,
                                    idx |-> Undefined]))

\* the callbacks _syncResource hands to _patchDiff, called in order
ApplyCalls(s, o, calls, k) ==
    IF Halt(s) \/ k > Len(calls) THEN s
    ELSE ApplyCalls(IF calls[k].op = "keep"
                    THEN _getCachedResource(s, calls[k].id, ModelData, FALSE, "default")
                    ELSE IF calls[k].op = "add"
                    THEN _handleAddEvent(s, o, calls[k].id, calls[k].idx)
                    ELSE _handleRemoveEvent(s, o, Undefined),
                    o, calls, k + 1)

\* the ids a of _syncResource: collection.atIndex(i).getResourceId()
IdsOf(list) == [i \in 1..Len(list) |-> list[i].rid]

\* the body of _syncResource
SyncItem(s, o, data) ==
    LET it == s.items[o]
    IN  IF (it.item = "collection") # data.coll THEN throw(s)
        ELSE IF ~data.coll THEN s
        ELSE IF ~it.linit THEN throw(s)
        ELSE IF \E i \in 1..Len(it.list) : ~it.list[i].model THEN throw(s)
        ELSE ApplyCalls(s, o, _patchDiff(IdsOf(it.list), data.rids), 1)

\* synced keeps the calls: the resource, the ids its list held and those of
\* the snapshot
_syncResource(s, o, data) ==
    SyncItem([s EXCEPT !.synced = Append(@, [rid |-> s.items[o].rid,
                                             old |-> IdsOf(s.items[o].list),
                                             snap |-> data.rids])],
             o, data)

_handleUnsubscribeEvent(s, o) ==
    Then(_tryDelete(setSubscribed(s, o, FALSE), o),
         LAMBDA t : emit(t, [ev |-> "unsubscribe", on |-> s.items[o].rid,
                             item |-> s.items[o].rid, model |-> TRUE,
                             idx |-> Undefined]))

(* ------------------------- requests and the transport ----------------- *)

\* what a request promise is for: k names the reactions attached to it
\* ("get": getResource, "stale": _subscribeToStale, "referred":
\* _subscribeReferred, "unsub": _unsubscribeCacheItem, "call": none), o is
\* the CacheItem the reactions hold (0: none)
\* params of a request: given says whether there are any, props is the
\* object
NoParams == [given |-> FALSE, props |-> <<>>]
Params(props) == [given |-> TRUE, props |-> props]

Thunk(method, rid, k, o, fac) ==
    [method |-> method, rid |-> rid, k |-> k, o |-> o, fac |-> fac,
     params |-> NoParams]

\* no record under an id of this.requests (sock: the transport the request
\* was written to, 0 if it was not written)
NoRequest ==
    [method |-> "", rid |-> "", k |-> "", o |-> 0, fac |-> "", params |-> NoParams,
     sock |-> 0]

RequestOf(th, sock) ==
    [method |-> th.method, rid |-> th.rid, k |-> th.k, o |-> th.o,
     fac |-> th.fac, params |-> th.params, sock |-> sock]

enqueue(s, job) == [s EXCEPT !.micro = Append(@, job)]

\* a reaction of the promise of th, queued with its outcome
SettleJob(th, ok, data) == [j |-> "settle", th |-> th, ok |-> ok, data |-> data]

\* ws.send(json): it throws on a null ws and on a transport that is still
\* connecting; a closing or closed transport drops the frame silently
WriteOutcome(s) ==
    IF s.ws = 0 THEN "thrown"
    ELSE IF s.socks[s.ws] = "connecting" THEN "thrown"
    ELSE IF s.socks[s.ws] = "open" THEN "sent"
    ELSE "dropped"

\* the end of the executor of _sendNow: an exception in it rejects the
\* promise of the request
wsSend(t, id, th, outcome) ==
    IF outcome = "thrown" THEN enqueue(t, SettleJob(th, FALSE, ModelData))
    ELSE IF outcome = "sent"
    THEN [t EXCEPT !.wire = Append(@, [id |-> id, method |-> th.method,
                                       rid |-> th.rid,
                                       params |-> IF th.params.given
                                                  THEN Stringify(th.params.props)
                                                  ELSE <<>>,
                                       sock |-> t.ws])]
    ELSE t

\* _sendNow taking the id only once the frame is written
_sendNowReuse(s, th) ==
    IF s.reqId > MaxReq THEN [s EXCEPT !.ovf = TRUE]
    ELSE wsSend([s EXCEPT !.reqId = IF WriteOutcome(s) = "thrown" THEN @ ELSE @ + 1,
                          !.requests[s.reqId] =
                              RequestOf(th, IF WriteOutcome(s) = "sent" THEN s.ws ELSE 0),
                          !.issued = Append(@, [id |-> s.reqId,
                                                write |-> WriteOutcome(s)])],
                s.reqId, th, WriteOutcome(s))

_sendNow(s, th) ==
    IF s.reqId > MaxReq THEN [s EXCEPT !.ovf = TRUE]
    ELSE wsSend([s EXCEPT !.reqId = @ + 1,
                          !.requests[s.reqId] =
                              RequestOf(th, IF WriteOutcome(s) = "sent" THEN s.ws ELSE 0),
                          !.issued = Append(@, [id |-> s.reqId,
                                                write |-> WriteOutcome(s)])],
                s.reqId, th, WriteOutcome(s))

\* connect(): a new promise comes with a new WebSocket; the reactions
\* waiting on a promise whose callbacks are overwritten never run
connect(s) ==
    LET t == [s EXCEPT !.tryConnect = TRUE]
    IN  IF t.connectPromise THEN t
        ELSE IF t.nsock >= MaxSock THEN [t EXCEPT !.ovf = TRUE]
        ELSE [t EXCEPT !.connectPromise = TRUE, !.connectCallback = TRUE,
                       !.waiters = <<>>, !.nsock = @ + 1, !.ws = t.nsock + 1,
                       !.socks[t.nsock + 1] = "connecting"]

\* this.connectPromise is resolved when it is set and its callbacks are gone
_send(s, th) ==
    IF s.connected THEN _sendNow(s, th)
    ELSE Then(connect(s),
              LAMBDA t :
                  IF t.reqId + Len(t.waiters) > MaxReq THEN [t EXCEPT !.ovf = TRUE]
                  ELSE IF t.connectCallback THEN [t EXCEPT !.waiters = Append(@, th)]
                  ELSE enqueue(t, [j |-> "sendNow", th |-> th, ok |-> TRUE,
                                   data |-> ModelData]))

\* this.ws.close()
wsClose(s) ==
    IF s.ws # 0 /\ s.socks[s.ws] \in {"connecting", "open"}
    THEN [s EXCEPT !.socks[s.ws] = "closing"]
    ELSE s

_connectResolve(s) ==
    IF s.connectCallback
    THEN [s EXCEPT !.connectCallback = FALSE, !.waiters = <<>>,
                   !.micro = @ \o [i \in 1..Len(s.waiters) |->
                                   [j |-> "sendNow", th |-> s.waiters[i], ok |-> TRUE,
                                    data |-> ModelData]]]
    ELSE s

_connectReject(s) ==
    LET t == [s EXCEPT !.connectPromise = FALSE, !.ws = 0]
    IN  IF t.connectCallback
        THEN [t EXCEPT !.connectCallback = FALSE, !.waiters = <<>>,
                       !.micro = @ \o [i \in 1..Len(s.waiters) |->
                                       SettleJob(s.waiters[i], FALSE, ModelData)]]
        ELSE t

disconnect(s) ==
    LET t == [s EXCEPT !.tryConnect = FALSE]
    IN  IF t.ws # 0 THEN _connectReject(wsClose(t)) ELSE t

_reconnect(s) ==
    IF s.reconnectTimers >= MaxTimers THEN [s EXCEPT !.ovf = TRUE]
    ELSE [s EXCEPT !.reconnectTimers = @ + 1]

(* ------------------------------ subscriptions ------------------------- *)

_handleFailedSubscribe(s, o) == _tryDelete(setSubscribed(s, o, FALSE), o)

\* _subscribeToStale that subscribes to nothing
_subscribeToNone(s, rid) == s

_subscribeToStale(s, rid) ==
    IF ~s.connected THEN s
    ELSE LET o == s.cache[rid]
         IN  IF o = 0 \/ s.items[o].indirect # 0 \/ s.items[o].subscribed THEN s
             ELSE _send(setSubscribed(s, o, TRUE),
                        Thunk("subscribe", rid, "stale", o, "default"))

\* for (let rid in this.cache) this._subscribeToStale(rid), from the k-th key
RECURSIVE SubscribeKeys(_, _, _)
SubscribeKeys(s, ks, k) ==
    IF Halt(s) \/ k > Len(ks) THEN s
    ELSE SubscribeKeys(_subscribeToStale(s, ks[k]), ks, k + 1)

_subscribeToAllStale(s) == SubscribeKeys(s, s.keys, 1)

\* the loop of _subscribeReferred over the models of a collection
RECURSIVE ReferModels(_, _, _)
ReferModels(s, list, k) ==
    IF Halt(s) \/ k > Len(list) THEN s
    ELSE IF ~list[k].model THEN throw(s)
    ELSE LET c == s.cache[list[k].rid]
         IN  IF c = 0 THEN throw(s)
             ELSE IF ~s.items[c].subscribed /\ s.items[c].direct # 0
                     /\ s.items[c].indirect = 1
             THEN ReferModels(_send(setSubscribed(s, c, TRUE),
                                    Thunk("subscribe", list[k].rid, "referred", c, "default")),
                              list, k + 1)
             ELSE ReferModels(s, list, k + 1)

_subscribeReferred(s, o) ==
    IF ~s.connected THEN s
    ELSE IF s.items[o].item = "collection"
         THEN IF ~s.items[o].linit THEN throw(s)
              ELSE ReferModels(s, s.items[o].list, 1)
    ELSE s

_unsubscribeCacheItem(s, o) ==
    IF ~s.items[o].subscribed THEN _tryDelete(s, o)
    ELSE Then(_subscribeReferred(s, o),
              LAMBDA t :
                  IF t.connected
                  THEN _send(t, Thunk("unsubscribe", t.items[o].rid, "unsub", o, "default"))
                  ELSE _tryDelete(t, o))

\* CacheItem.removeDirect(): the release callback runs when the last direct
\* listener goes
removeDirect(s, o) ==
    LET t == [s EXCEPT !.items[o].direct = @ - 1]
    IN  IF t.items[o].direct = 0 THEN _unsubscribeCacheItem(t, o) ELSE t

(* ------------------------------ the client's calls -------------------- *)

\* the _send of getResource, for the CacheItem just put in the cache
SubscribeNew(s, rid, fac) ==
    Then(s, LAMBDA t : _send(t, Thunk("subscribe", rid, "get", t.cache[rid], fac)))

getResource(s, rid, fac) ==
    IF s.cache[rid] # 0 THEN s
    ELSE Then(SubscribeNew(NewCacheItem(s, rid, TRUE), rid, fac),
              LAMBDA t : setPromise(t, t.cache[rid]))

resourceOn(s, rid) ==
    IF s.cache[rid] = 0 THEN throw(s) ELSE addDirect(s, s.cache[rid])

resourceOff(s, rid) ==
    IF s.cache[rid] = 0 THEN throw(s) ELSE removeDirect(s, s.cache[rid])

\* callModel, authenticate, removeModel: a request and nothing else
callModel(s, rid) == _send(s, Thunk("call", rid, "call", 0, "default"))

\* createModel(collectionId, props): the request call.<collectionId>.new
createModel(s, rid) == _send(s, Thunk("new", rid, "create", 0, "default"))

actionDelete == ActionObj("delete")

\* the props sent as they are
KeepUndefined(props) == props

\* Object.keys(props).forEach(k => { if (props[k] === undefined) ... })
ReplaceUndefined(props) ==
    [i \in 1..Len(props) |->
        IF props[i][2] = Undef THEN <<props[i][1], actionDelete>> ELSE props[i]]

\* setModel(rid, props): obj names the object the caller hands over
setModel(s, rid, obj) ==
    _send(s, [Thunk("set", rid, "call", 0, "default") EXCEPT
                 !.params = Params(ReplaceUndefined(ObjectAssign(<<>>, s.setm[obj], 1)))])

(* ------------------------- promise reactions -------------------------- *)

\* this._getCachedModel(rid, data): ResClient has no method of that name,
\* so that the call raises a TypeError
_getCachedModel(s, rid, data) == throw(s)

\* the then of createModel: _getCachedModel, setSubscribed(true)
createModelThen(s, rid) ==
    Then(_getCachedModel(s, rid, ModelData),
         LAMBDA t : setSubscribed(t, t.cache[rid], TRUE))

\* the catch of getResource: setSubscribed(false), _tryDelete, throw err
getResourceCatch(s, o) == _tryDelete(setSubscribed(s, o, FALSE), o)

\* the reactions of a request promise: of getResource, _subscribeToStale,
\* _subscribeReferred, createModel and _unsubscribeCacheItem
Settle(s, th, ok, data) ==
    IF th.k = "get"
    THEN Catch(IF ok THEN _getCachedResource(s, th.rid, data, FALSE, th.fac)
               ELSE throw(s),
               LAMBDA t : getResourceCatch(t, th.o))
    ELSE IF th.k = "stale"
    THEN Catch(IF ~ok THEN throw(s)
               ELSE IF s.cache[th.rid] # th.o THEN s
               ELSE _syncResource(s, th.o, data),
               LAMBDA t : _handleFailedSubscribe(t, th.o))
    ELSE IF th.k = "referred"
    THEN IF ok THEN s ELSE _handleFailedSubscribe(s, th.o)
    ELSE IF th.k = "create"
    THEN IF ok THEN createModelThen(s, data.rids[1]) ELSE s
    ELSE IF th.k = "unsub"
    THEN Catch(IF ok THEN _tryDelete(setSubscribed(s, th.o, FALSE), th.o)
               ELSE throw(s),
               LAMBDA t : _tryDelete(t, th.o))
    ELSE s

\* the reactions of _handleOnopen to the onConnect hook's promise
HookSettle(s, ok) ==
    Catch(IF ~ok THEN throw(s)
          ELSE Then(_subscribeToAllStale(s),
                    LAMBDA t : _connectResolve(
                                   emit(t, [ev |-> "connect", on |-> "client",
                                            item |-> "", model |-> FALSE,
                                            idx |-> Undefined]))),
          LAMBDA t : wsClose(t))

RunJob(s, job) ==
    IF job.j = "sendNow" THEN _sendNow(s, job.th)
    ELSE IF job.j = "settle" THEN Settle(s, job.th, job.ok, job.data)
    ELSE HookSettle(s, job.ok)

\* the promise reactions queued by a task run, in order, when it ends; an
\* exception that leaves a reaction rejects a promise nobody reads
RECURSIVE Drain(_)
Drain(s) ==
    IF s.ovf \/ s.micro = <<>> THEN s
    ELSE Drain(clearErr(RunJob([s EXCEPT !.micro = Tail(@), !.err = FALSE],
                               Head(s.micro))))

(* ------------------------- transport callbacks ------------------------ *)

\* hook: "none" (no onConnect, or one that returns a value), "async" (one
\* that returns a pending promise), "throw" (one that throws)
_handleOnopen(s, hook) ==
    LET t == [s EXCEPT !.connected = TRUE]
    IN  IF hook = "throw" THEN throw(t)
        ELSE IF hook = "async" THEN [t EXCEPT !.hooks = @ + 1]
        ELSE enqueue(t, [j |-> "hook", th |-> Thunk("", "", "", 0, ""), ok |-> TRUE,
                         data |-> ModelData])

_handleOnerror(s) == _connectReject(s)

\* for (let id in this.cache) { setSubscribed(false); _tryDelete }: a key
\* deleted before its turn is skipped
RECURSIVE CloseKeys(_, _, _)
CloseKeys(s, ks, k) ==
    IF Halt(s) \/ k > Len(ks) THEN s
    ELSE LET o == s.cache[ks[k]]
         IN  IF o = 0 THEN CloseKeys(s, ks, k + 1)
             ELSE CloseKeys(_tryDelete(setSubscribed(s, o, FALSE), o), ks, k + 1)

\* the block of _handleOnclose under if (this.connected)
CloseAll(s) ==
    IF s.connected
    THEN Then(CloseKeys([s EXCEPT !.connected = FALSE], s.keys, 1),
              LAMBDA t : emit(t, [ev |-> "close", on |-> "client", item |-> "",
                                  model |-> FALSE, idx |-> Undefined]))
    ELSE s

_handleOnclose(s) ==
    Then(CloseAll([s EXCEPT !.connectPromise = FALSE, !.ws = 0]),
         LAMBDA t : IF t.tryConnect THEN _reconnect(t) ELSE t)

\* _receive without the delete of the record
_receiveKeep(s, id, ok, data) ==
    IF s.requests[id] = NoRequest THEN throw(s)
    ELSE enqueue([s EXCEPT !.answered = @ \cup {id}],
                 SettleJob(s.requests[id], ok, data))

\* _receive of a response {id, result} or {id, error}
_receive(s, id, ok, data) ==
    LET req == s.requests[id]
    IN  IF req = NoRequest THEN throw(s)
        ELSE LET t == [s EXCEPT !.requests[id] = NoRequest,
                                !.answered = @ \cup {id}]
             IN  IF ok THEN enqueue(t, SettleJob(req, TRUE, data))
                 ELSE enqueue(emit(t, [ev |-> "error", on |-> "client", item |-> req.rid,
                                       model |-> FALSE, idx |-> Undefined]),
                              SettleJob(req, FALSE, data))

\* _receive of an event {event: rid.name}
_handleEvent(s, rid, name, arg, idx) ==
    LET o == s.cache[rid]
    IN  IF o = 0 THEN throw(s)
        ELSE IF name = "add" THEN _handleAddEvent(s, o, arg, idx)
        ELSE IF name = "remove" THEN _handleRemoveEvent(s, o, idx)
        ELSE _handleUnsubscribeEvent(s, o)

(* ------------------------------- tasks -------------------------------- *)

\* the state a task starts in
State ==
    [tryConnect |-> tryConnect, connected |-> connected, ws |-> ws,
     requests |-> requests, reqId |-> reqId, cache |-> cache,
     connectPromise |-> connectPromise, connectCallback |-> connectCallback,
     keys |-> keys, items |-> items, staleTimers |-> staleTimers,
     reconnectTimers |-> reconnectTimers, hooks |-> hooks, waiters |-> waiters,
     socks |-> socks, nsock |-> nsock, issued |-> issued, answered |-> answered,
     events |-> <<>>, removed |-> <<>>, wire |-> <<>>, synced |-> <<>>,
     setm |-> setm,
     micro |-> <<>>, err |-> FALSE, ovf |-> FALSE]

NoOp == [name |-> "", rid |-> "", arg |-> 0, threw |-> FALSE]

\* the record of a request whose promise stays pending for ever: it is
\* still in this.requests, and nothing reads what it holds
DeadRequest == [NoRequest EXCEPT !.k = "dead"]

\* a request that no response can reach any more: it was not written, or
\* its transport is closing or closed.  Its reactions never run
Dead(s, req) ==
    /\ req # NoRequest
    /\ req # DeadRequest
    /\ req.sock = 0 \/ s.socks[req.sock] \in {"closing", "closed"}

\* q without 0 and without the later occurrences of a value
RECURSIVE Firsts(_, _)
Firsts(q, seen) ==
    IF q = <<>> THEN <<>>
    ELSE IF Head(q) = 0 \/ Head(q) \in seen THEN Firsts(Tail(q), seen)
    ELSE <<Head(q)>> \o Firsts(Tail(q), seen \cup {Head(q)})

\* the objects no longer reachable are dropped from the heap, and the
\* others are numbered in the order the cache, the requests and the waiting
\* calls name them (an object's number is its identity, nothing more)
Collect(s) ==
    LET reqs == [id \in 1..MaxReq |->
                   IF Dead(s, s.requests[id])
                   THEN DeadRequest
                   ELSE s.requests[id]]
        live == Firsts([i \in 1..Len(RidSeq) |-> s.cache[RidSeq[i]]]
                       \o [id \in 1..MaxReq |-> reqs[id].o]
                       \o [i \in 1..Len(s.waiters) |-> s.waiters[i].o], {})
        new(o) == IF o = 0 THEN 0 ELSE CHOOSE i \in 1..Len(live) : live[i] = o
    IN  [s EXCEPT !.requests = [id \in 1..MaxReq |-> [reqs[id] EXCEPT !.o = new(@)]],
                  !.waiters = [i \in 1..Len(s.waiters) |-> [s.waiters[i] EXCEPT !.o = new(@)]],
                  !.cache = [r \in Rids |-> new(s.cache[r])],
                  !.items = [o \in 1..MaxObj |->
                               IF o <= Len(live) THEN s.items[live[o]] ELSE NoItem]]

\* the state d a task ends in becomes the next state
Commit(d, o) ==
    /\ ~d.ovf
    /\ tryConnect' = d.tryConnect
    /\ connected' = d.connected
    /\ ws' = d.ws
    /\ requests' = d.requests
    /\ reqId' = d.reqId
    /\ cache' = d.cache
    /\ connectPromise' = d.connectPromise
    /\ connectCallback' = d.connectCallback
    /\ keys' = d.keys
    /\ items' = d.items
    /\ staleTimers' = d.staleTimers
    /\ reconnectTimers' = d.reconnectTimers
    /\ hooks' = d.hooks
    /\ waiters' = d.waiters
    /\ socks' = d.socks
    /\ nsock' = d.nsock
    /\ issued' = d.issued
    /\ answered' = d.answered
    /\ events' = d.events
    /\ removed' = d.removed
    /\ wire' = d.wire
    /\ synced' = d.synced
    /\ op' = o
    /\ setm' = d.setm
    /\ UNCHANGED diff

\* one task: its synchronous part has led to t, then the queued promise
\* reactions run; o tells whether the synchronous part threw
Task(t, o) ==
    Commit(Collect(Drain(t)), IF o = NoOp THEN NoOp ELSE [o EXCEPT !.threw = t.err])

\* the tasks op names; of the others nothing is kept
Observed == {"secondResponse", "hook", "onopen", "getModel", "created"}

Op(name, rid, arg) ==
    IF name \in Observed
    THEN [name |-> name, rid |-> rid, arg |-> arg, threw |-> FALSE]
    ELSE NoOp

(* ------------------------------ the user ------------------------------ *)

Connect == Task(connect(State), Op("connect", "", 0))

Disconnect == Task(disconnect(State), Op("disconnect", "", 0))

\* the collection factories: "default" is defaultCollectionFactory, "init"
\* one the caller has registered
Factories == {"default", "init"}

\* the resources the user listens to
Listened == {"c1", "m1"}

\* getResource of a collection
GetCollection ==
    \E rid \in Colls, fac \in Factories :
        Task(getResource(State, rid, fac), Op("getResource", rid, 0))

\* getResource of a model
GetModel ==
    \E rid \in {"m1"} :
        Task(getResource(State, rid, "default"),
             Op("getModel", rid, IF cache[rid] # 0 THEN 1 ELSE 0))

ResourceOn ==
    \E rid \in Listened :
        /\ cache[rid] # 0
        /\ Task(resourceOn(State, rid), Op("resourceOn", rid, 0))

\* a listener that was attached is detached
ResourceOff ==
    \E rid \in Listened :
        /\ cache[rid] # 0
        /\ items[cache[rid]].direct > 0
        /\ Task(resourceOff(State, rid), Op("resourceOff", rid, 0))

CallModel ==
    \E rid \in {"m1"} : Task(callModel(State, rid), Op("callModel", rid, 0))

\* createModel in a collection
CreateModel ==
    \E rid \in Colls : Task(createModel(State, rid), Op("createModel", rid, 0))

(* ------------------------------ the timers ---------------------------- *)

\* the timer _setStale has set for rid fires
StaleTimerOf(rid) ==
    /\ staleTimers[rid] > 0
    /\ Task(_subscribeToStale([State EXCEPT !.staleTimers[rid] = @ - 1], rid),
            Op("staleTimer", rid, 0))

StaleTimer == \E rid \in Rids : StaleTimerOf(rid)

ReconnectTimer ==
    /\ reconnectTimers > 0
    /\ LET s == [State EXCEPT !.reconnectTimers = @ - 1]
       IN  Task(IF s.tryConnect THEN connect(s) ELSE s, Op("reconnectTimer", "", 0))

(* ----------------------------- the transport -------------------------- *)

\* the transport opens; hooks are the onConnect hooks the client may have
OnOpenWith(hookSet) ==
    \E k \in 1..MaxSock, hook \in hookSet :
        /\ socks[k] = "connecting"
        /\ Task(_handleOnopen([State EXCEPT !.socks[k] = "open"], hook),
                Op("onopen", hook, k))

OnOpen == OnOpenWith({"none", "async", "throw"})

\* the transport opens for a client without an onConnect hook
OnOpenPlain == OnOpenWith({"none"})

HookDone ==
    \E ok \in BOOLEAN :
        /\ hooks > 0
        /\ Task(HookSettle([State EXCEPT !.hooks = @ - 1], ok),
                Op("hook", "", IF ok THEN 1 ELSE 0))

OnError ==
    \E k \in 1..MaxSock :
        /\ socks[k] \in {"connecting", "open"}
        /\ Task(_handleOnerror([State EXCEPT !.socks[k] = "closing"]),
                Op("onerror", "", k))

OnClose ==
    \E k \in 1..MaxSock :
        /\ socks[k] \in {"connecting", "open", "closing"}
        /\ Task(_handleOnclose([State EXCEPT !.socks[k] = "closed"]),
                Op("onclose", "", k))

(* ------------------------------ the server ---------------------------- *)

\* the sequences without repetition over S, up to the length n
RECURSIVE Arrangements(_, _)
Arrangements(S, n) ==
    IF n = 0 THEN {<<>>}
    ELSE LET shorter == Arrangements(S, n - 1)
         IN  shorter \cup {Append(q, x) : q \in shorter, x \in S}

NoRepeat(q) == \A i, j \in 1..Len(q) : q[i] = q[j] => i = j

\* the snapshots of a collection: its models, each once
Snapshots == {q \in Arrangements(Models, MaxSnap) : NoRepeat(q)}

\* the rids the server gives the models it creates
Created == {"m2"}

\* the results a request can be answered with
Results(req) ==
    IF req.method = "subscribe" /\ req.rid \in Colls
    THEN {CollData(q) : q \in Snapshots}
    ELSE IF req.k = "create"
    THEN {CreatedData(rid) : rid \in Created}
    ELSE {ModelData}

\* the server answers the request id, which it has received, on the
\* transport it came by
ResponseTo(id) ==
    /\ requests[id] # NoRequest
    /\ requests[id].sock # 0
    /\ socks[requests[id].sock] = "open"
    /\ \E ok \in BOOLEAN, data \in Results(requests[id]) :
          /\ ~ok => data \in {ModelData} \cup {CreatedData(rid) : rid \in Created}
          /\ Task(_receive(State, id, ok, data),
                  IF ok /\ requests[id].k = "create"
                  THEN Op("created", data.rids[1], id)
                  ELSE Op("response", "", id))

Response == \E id \in 1..MaxReq : ResponseTo(id)

\* a second response to a request already answered
SecondResponse ==
    \E id \in answered :
        /\ \E k \in 1..MaxSock : socks[k] = "open"
        /\ Task(_receive(State, id, TRUE, ModelData), Op("secondResponse", "", id))

\* the server sends events on the resources the client is subscribed to
Subscribed(rid) ==
    /\ \E k \in 1..MaxSock : socks[k] = "open"
    /\ cache[rid] # 0
    /\ items[cache[rid]].item # "null"
    /\ items[cache[rid]].subscribed
    /\ \A id \in 1..MaxReq :
          ~(requests[id].method = "subscribe" /\ requests[id].rid = rid)

AddEvent ==
    \E c \in Colls, m \in Models :
        /\ Subscribed(c)
        /\ Len(items[cache[c]].list) < MaxSnap
        /\ \A i \in 1..Len(items[cache[c]].list) : items[cache[c]].list[i].rid # m
        /\ \E idx \in 0..Len(items[cache[c]].list) :
              Task(_handleEvent(State, c, "add", m, idx), Op("add", c, idx))

RemoveEvent ==
    \E c \in Colls :
        /\ Subscribed(c)
        /\ \E idx \in 0..(Len(items[cache[c]].list) - 1) :
              Task(_handleEvent(State, c, "remove", "", idx), Op("remove", c, idx))

UnsubscribeEvent ==
    \E rid \in Rids :
        /\ Subscribed(rid)
        /\ Task(_handleEvent(State, rid, "unsubscribe", "", Undefined),
                Op("unsubscribe", rid, 0))

(* --------------------------- the specification ------------------------ *)

IdleDiff == [a |-> <<>>, b |-> <<>>, calls |-> <<>>, out |-> <<>>, done |-> FALSE]
IdleSetm == [props |-> <<>>, caller |-> <<>>, twin |-> <<>>, calls |-> 0]

ClientInit ==
    /\ tryConnect = FALSE
    /\ connected = FALSE
    /\ ws = 0
    /\ requests = [id \in 1..MaxReq |-> NoRequest]
    /\ reqId = 1
    /\ cache = [r \in Rids |-> 0]
    /\ connectPromise = FALSE
    /\ connectCallback = FALSE
    /\ keys = <<>>
    /\ items = [o \in 1..MaxObj |-> NoItem]
    /\ staleTimers = [r \in Rids |-> 0]
    /\ reconnectTimers = 0
    /\ hooks = 0
    /\ waiters = <<>>
    /\ socks = [k \in 1..MaxSock |-> "none"]
    /\ nsock = 0
    /\ events = <<>>
    /\ removed = <<>>
    /\ wire = <<>>
    /\ synced = <<>>
    /\ op = NoOp
    /\ issued = <<>>
    /\ answered = {}

Init == ClientInit /\ diff = IdleDiff /\ setm = IdleSetm

\* the cache: a client without an onConnect hook, its collection and the
\* models of the collection, on a transport that closes and is replaced
\* a step of the cache or of the connection specification creates no
\* transport beyond MaxConn
Capped == nsock' <= MaxConn

Next ==
    \/ GetCollection /\ Capped
    \/ ResourceOn /\ Capped
    \/ ResourceOff /\ Capped
    \/ StaleTimer /\ Capped
    \/ OnOpenPlain /\ Capped
    \/ OnClose /\ Capped
    \/ ReconnectTimer /\ Capped
    \/ Response /\ Capped
    \/ AddEvent /\ Capped
    \/ RemoveEvent /\ Capped
    \/ UnsubscribeEvent /\ Capped

Spec == Init /\ [][Next]_vars

\* the connection: transports that open, fail and close, under the requests
\* of one model
NextConn ==
    \/ Connect /\ Capped
    \/ Disconnect /\ Capped
    \/ GetModel /\ Capped
    \/ ResourceOn /\ Capped
    \/ CallModel /\ Capped
    \/ ReconnectTimer /\ Capped
    \/ OnOpen /\ Capped
    \/ HookDone /\ Capped
    \/ OnError /\ Capped
    \/ OnClose /\ Capped
    \/ Response /\ Capped
    \/ SecondResponse /\ Capped

SpecConn == Init /\ [][NextConn]_vars

\* getResource over transports that are replaced: a client without an
\* onConnect hook that connects, disconnects and asks for one model
NextGet ==
    \/ Connect
    \/ Disconnect
    \/ GetModel
    \/ CreateModel
    \/ ResourceOn
    \/ OnOpenPlain
    \/ OnError
    \/ OnClose
    \/ Response

SpecGet == Init /\ [][NextGet]_vars

(* ----------------------- the diff specification ----------------------- *)

\* the ids of the sequences handed to _patchDiff
DiffIds == {"A", "B", "C", "D"}

\* the sequences over S up to the length n
RECURSIVE SeqsUpTo(_, _)
SeqsUpTo(S, n) ==
    IF n = 0 THEN {<<>>}
    ELSE LET shorter == SeqsUpTo(S, n - 1)
         IN  shorter \cup {Append(q, x) : q \in {r \in shorter : Len(r) = n - 1}, x \in S}

InitDiff ==
    /\ ClientInit
    /\ setm = IdleSetm
    /\ \E a \in SeqsUpTo(DiffIds, MaxLen), b \in SeqsUpTo(DiffIds, MaxLen) :
          diff = [IdleDiff EXCEPT !.a = a, !.b = b]

\* _patchDiff runs on a and b, and a listener replays its removes and adds
\* on a copy of a
PatchDiff ==
    /\ ~diff.done
    /\ diff' = [diff EXCEPT !.calls = _patchDiff(diff.a, diff.b),
                            !.out = Replay(diff.a, _patchDiff(diff.a, diff.b), 1),
                            !.done = TRUE]
    /\ UNCHANGED <<clientVars, setm>>

SpecDiff == InitDiff /\ [][PatchDiff]_vars

(* --------------------- the setModel specification --------------------- *)

PropKeys == {"a", "b"}
PropValues == {Undef, Null, Num("1"), ActionObj("delete")}

\* the props objects: up to MaxProps keys, each once
PropsSet ==
    {q \in SeqsUpTo(PropKeys \X PropValues, MaxProps) :
        \A i, j \in 1..Len(q) : q[i][1] = q[j][1] => i = j}

\* props as a caller writes them who writes the delete sentinel out
Spelled(props) ==
    [i \in 1..Len(props) |->
        IF props[i][2].t = "undefined"
        THEN <<props[i][1], ActionObj("delete")>> ELSE props[i]]

InitSet ==
    /\ ClientInit
    /\ diff = IdleDiff
    /\ \E props \in PropsSet :
          setm = [props |-> props, caller |-> props, twin |-> Spelled(props),
                  calls |-> 0]

\* the user calls setModel with the props, and once more with the props in
\* which the sentinel is written out
SetModel ==
    /\ setm.calls = 0
    /\ Task(Then(setModel([State EXCEPT !.setm.calls = 2], "m1", "caller"),
                 LAMBDA t : setModel(t, "m1", "twin")),
            Op("setModel", "m1", 0))

NextSet ==
    \/ SetModel
    \/ OnOpenPlain
    \/ Response

SpecSet == InitSet /\ [][NextSet]_vars

(* ------------------------------ properties ---------------------------- *)

\* the entry cached under rid
Entry(rid) == items[cache[rid]]

\* C1: after every task, every entry in the cache has a direct listener, an
\* indirect reference, a subscription or a fetch promise still pending
C1_EntryHasReason ==
    \A rid \in Rids :
        cache[rid] # 0 =>
            \/ Entry(rid).direct > 0
            \/ Entry(rid).indirect > 0
            \/ Entry(rid).subscribed
            \/ Entry(rid).promise

\* the places where the rid m is an element of a collection in the cache
Occurrences(m) ==
    {<<c, i>> \in Colls \X (1..(MaxSnap + 1)) :
        /\ cache[c] # 0
        /\ Entry(c).item = "collection"
        /\ i <= Len(Entry(c).list)
        /\ Entry(c).list[i].rid = m}

\* every cached collection has the list __init gives it
Listed ==
    \A c \in Colls :
        cache[c] # 0 /\ Entry(c).item = "collection" => Entry(c).linit

\* C2: after every task, the indirect count of every model's entry is the
\* number of times its rid is an element of a cached collection, and every
\* element of a cached collection has an entry with indirect >= 1 (stated
\* for the caches whose collections have a list to count in)
C2_IndirectCounts ==
    Listed =>
        \A m \in Models :
            /\ cache[m] # 0 => Entry(m).indirect = Cardinality(Occurrences(m))
            /\ Occurrences(m) # {} => cache[m] # 0 /\ Entry(m).indirect >= 1

\* C3: an entry leaves the cache only when it has no direct listener, no
\* indirect reference and no subscription
C3_RemovedOnlyUnused ==
    \A i \in 1..Len(removed) :
        /\ removed[i].direct = 0
        /\ removed[i].indirect = 0
        /\ ~removed[i].subscribed

\* C4: for every a and b, applying the remove and add calls of _patchDiff to
\* a copy of a, in the order made and at the indices passed, gives b
C4_ReplayGivesB == diff.done => diff.out = diff.b

\* the add and remove events the last task has emitted on the collection c,
\* as the calls a listener replays
ListEvents(c) ==
    SelectSeq(events, LAMBDA e : e.on = c /\ e.ev \in {"add", "remove"})
AsCalls(evs) ==
    [j \in 1..Len(evs) |-> [op |-> evs[j].ev, id |-> evs[j].item, idx |-> evs[j].idx]]

\* C5: after _syncResource on a collection that has a list, the order of
\* the collection is that of the snapshot, every add and remove event it
\* has emitted carries the item and its index, and a listener that replays
\* the events on the order before ends with the order of the snapshot
C5_ResyncReplays ==
    \A i \in 1..Len(synced) :
        (/\ synced[i].rid \in Colls
         /\ cache[synced[i].rid] # 0
         /\ Entry(synced[i].rid).item = "collection"
         /\ Entry(synced[i].rid).linit) =>
            /\ IdsOf(Entry(synced[i].rid).list) = synced[i].snap
            /\ \A j \in 1..Len(ListEvents(synced[i].rid)) :
                  /\ ListEvents(synced[i].rid)[j].model
                  /\ ListEvents(synced[i].rid)[j].idx # Undefined
            /\ Replay(synced[i].old, AsCalls(ListEvents(synced[i].rid)), 1)
                  = synced[i].snap

\* the step is the handling of a server remove event on the collection c,
\* which is cached and has a list
RemoveStep(c) ==
    /\ cache[c] # 0
    /\ Entry(c).item = "collection"
    /\ Entry(c).linit
    /\ synced' = <<>>
    /\ Len(events') > 0
    /\ events'[1].ev = "remove"
    /\ events'[1].on = c

\* what C7 says of a model whose entry e was an element: it has one
\* indirect reference less, and is dropped exactly when nothing is left
ChildReleased(m) ==
    /\ cache[m] # 0
    /\ IF Entry(m).direct = 0 /\ Entry(m).indirect = 1 /\ ~Entry(m).subscribed
       THEN cache'[m] = 0
       ELSE /\ cache'[m] # 0
            /\ items'[cache'[m]].indirect = Entry(m).indirect - 1

\* C7: a server remove event at idx on a cached collection removes the
\* element there, emits remove with that item and idx, releases one
\* indirect reference of the child, drops the child exactly when it has no
\* direct listener, indirect reference or subscription left, and leaves
\* the collection and every other entry in the cache
C7_RemoveEvent ==
    [][\A c \in Colls :
          RemoveStep(c) =>
              /\ cache'[c] # 0
              /\ items'[cache'[c]].list = spliceOut(Entry(c).list, events'[1].idx)
              /\ events'[1].model
              /\ events'[1].item = Removed(Entry(c).list, events'[1].idx).rid
              /\ Removed(Entry(c).list, events'[1].idx).rid \in Models
              /\ ChildReleased(Removed(Entry(c).list, events'[1].idx).rid)
              /\ \A r \in Rids \ {Removed(Entry(c).list, events'[1].idx).rid} :
                    cache[r] # 0 => cache'[r] # 0]_vars

\* the last task has handled the server's unsubscribe event on rid
Unsubscribed(rid) ==
    \E i \in 1..Len(events) : events[i].ev = "unsubscribe" /\ events[i].on = rid

\* the entry of rid has a direct listener and no indirect reference
ListenedOnly(rid) ==
    cache[rid] # 0 /\ Entry(rid).direct >= 1 /\ Entry(rid).indirect = 0

\* the last task has handed a snapshot to _syncResource for the item of rid
Resynced(rid) == \E i \in 1..Len(synced) : synced[i].rid = rid

\* the listener of rid is gone
Detached(rid) == cache[rid] = 0 \/ Entry(rid).direct = 0

\* the server has answered a request on rid with an error
Refused(rid) ==
    \E i \in 1..Len(events) : events[i].ev = "error" /\ events[i].item = rid

\* the unsubscribe event on an entry with a listener and no indirect
\* reference leaves it in the cache, not subscribed, with the stale timer set
StaysStale ==
    \A rid \in Rids :
        (connected /\ ListenedOnly(rid) /\ Unsubscribed(rid)') =>
            /\ cache'[rid] # 0
            /\ ~items'[cache'[rid]].subscribed
            /\ items'[cache'[rid]].direct = Entry(rid).direct
            /\ staleTimers'[rid] > 0

\* the step in which the stale timer of rid fires
TimerFires(rid) == staleTimers'[rid] = staleTimers[rid] - 1

\* the task has written subscribe.<rid> to the transport
SubscribeSent(rid) ==
    \E i \in 1..Len(wire') :
        wire'[i].method = "subscribe" /\ wire'[i].rid = rid

\* the step answers, with a snapshot, the request id that _subscribeToStale
\* has sent for the entry still cached under rid
StaleAnswered(id, rid) ==
    /\ id \notin answered
    /\ id \in answered'
    /\ requests[id].k = "stale"
    /\ requests[id].rid = rid
    /\ cache[rid] = requests[id].o
    /\ ~Refused(rid)'

\* the snapshot of every answered stale subscription reaches _syncResource
SnapshotApplied ==
    \A id \in 1..MaxReq, rid \in Rids :
        StaleAnswered(id, rid) => Resynced(rid)'

\* C6 as stated: after an unsubscribe event the entry with a direct listener
\* and no indirect reference stays cached, not subscribed; while the client
\* is connected and the listener attached, the stale timer that fires
\* issues subscribe.<rid>, and its snapshot is applied to the existing item
\* through _syncResource
C6_Stated ==
    [][/\ StaysStale
       /\ SnapshotApplied
       /\ \A rid \in Rids :
             (/\ TimerFires(rid)
              /\ connected
              /\ cache[rid] # 0
              /\ Entry(rid).direct >= 1
              /\ ~Entry(rid).subscribed) => SubscribeSent(rid)]_vars

\* C6: the same, for the timers that fire while the entry has no indirect
\* reference (_subscribeToStale returns when it has one)
C6_ResyncsUnlessReferred ==
    [][/\ StaysStale
       /\ SnapshotApplied
       /\ \A rid \in Rids :
             (/\ TimerFires(rid)
              /\ connected
              /\ ListenedOnly(rid)
              /\ ~Entry(rid).subscribed) => SubscribeSent(rid)]_vars

\* the snapshot asked for by the stale timer has been applied to the item
\* of an entry that has its listener and no indirect reference
C6_Witness ==
    \E rid \in Rids :
        /\ Resynced(rid)
        /\ ListenedOnly(rid)
        /\ Entry(rid).subscribed
        /\ \E i \in 1..Len(issued) : issued[i].id > 1

\* C8: the first response with the id of a request removes its record, and
\* a further response with that id is rejected (_receive throws) and
\* changes neither the pending requests nor the cache nor anything else
C8_AtMostOnce ==
    [][/\ \A id \in 1..MaxReq :
             (id \notin answered /\ id \in answered') =>
                 requests[id] # NoRequest /\ requests'[id] = NoRequest
       /\ \A id \in answered : requests[id] = NoRequest
       /\ op'.name = "secondResponse" =>
             /\ op'.threw
             /\ requests' = requests
             /\ cache' = cache
             /\ items' = items
             /\ answered' = answered
             /\ reqId' = reqId]_vars

\* a second response has been rejected while another request was pending
\* and a resource was cached
C8_Witness ==
    /\ op.name = "secondResponse"
    /\ op.threw
    /\ \E id \in 1..MaxReq : requests[id].method # "" /\ id \notin answered
    /\ \E rid \in Rids : cache[rid] # 0

\* C9: the ids of the requests are strictly increasing in the order issued,
\* and the next id is above them all
C9_IdsIncrease ==
    /\ \A i, j \in 1..Len(issued) : i < j => issued[i].id < issued[j].id
    /\ \A i \in 1..Len(issued) : issued[i].id < reqId

\* a request whose write has thrown is followed by a request sent on a
\* second transport
C9_Witness ==
    /\ nsock = 2
    /\ \E i, j \in 1..Len(issued) :
          i < j /\ issued[i].write = "thrown" /\ issued[j].write = "sent"

\* the set requests the last task has written
SetFrames == SelectSeq(wire, LAMBDA f : f.method = "set")

\* C10: setModel sends call.<rid>.set with the props in which every
\* undefined value is {action: "delete"} and every other value is unchanged;
\* props with undefined and the props with the delete action spelled out
\* give the same request; the object of the caller is not modified
C10_SetModel ==
    /\ \A i \in 1..Len(SetFrames) :
          /\ SetFrames[i].rid = "m1"
          /\ SetFrames[i].params = Stringify(Spelled(setm.props))
    /\ \A i, j \in 1..Len(SetFrames) : SetFrames[i].params = SetFrames[j].params
    /\ setm.caller = setm.props
    /\ setm.twin = Spelled(setm.props)

\* both requests are written, for props with an undefined value and a
\* value that is kept
C10_Witness ==
    /\ Len(SetFrames) = 2
    /\ \E i, j \in 1..Len(setm.props) :
          setm.props[i][2] = Undef /\ setm.props[j][2] = Num("1")

\* tryConnect is false from disconnect() until the next connect(), which
\* every call that sends a request while not connected makes: the steps
\* between them start and end with it false
Disconnected == ~tryConnect /\ ~tryConnect'

\* C11: disconnect() leaves no connect future pending, and until the next
\* connect() or sending call no transport is opened, no reconnect is
\* scheduled, and a reconnect timer that fires changes nothing
C11_DisconnectStops ==
    [][/\ ~tryConnect' => ~connectCallback' /\ waiters' = <<>>
       /\ Disconnected =>
             /\ nsock' = nsock
             /\ reconnectTimers' <= reconnectTimers
             /\ ~connectPromise'
       /\ (Disconnected /\ reconnectTimers' < reconnectTimers) =>
             /\ ws' = ws
             /\ socks' = socks
             /\ connected' = connected
             /\ requests' = requests
             /\ cache' = cache]_vars

\* the transport k, for which the connect future is pending, closes before
\* it has opened
ClosesPending(k) ==
    /\ ws = k
    /\ connectCallback
    /\ socks[k] = "connecting"
    /\ socks'[k] = "closed"

\* C12: when the transport closes before it has opened, the pending connect
\* future is rejected, so that no call is left waiting on it, and a
\* reconnect is scheduled exactly when tryConnect is set
C12_ClosePendingRejects ==
    [][\A k \in 1..MaxSock :
          ClosesPending(k) =>
              /\ ~connectCallback'
              /\ waiters' = <<>>
              /\ reconnectTimers' =
                    reconnectTimers + (IF tryConnect THEN 1 ELSE 0)]_vars

\* C13: while the onConnect hook of the first transport has not completed,
\* no task writes a request to the transport (the hooks of the model send
\* none themselves)
C13_NothingAheadOfHook == (hooks > 0 /\ nsock = 1) => wire = <<>>

\* the task has emitted the client's connect event
ConnectEmitted == \E i \in 1..Len(events) : events[i].ev = "connect"

\* the step resolves the connect future
Resolved == connectCallback /\ ~connectCallback' /\ connectPromise'

\* the task was the completion of the onConnect hook: with success (none
\* is a client without hook), or with failure
HookOk ==
    \/ op.name = "hook" /\ op.arg = 1
    \/ op.name = "onopen" /\ op.rid = "none"
HookFailed ==
    \/ op.name = "hook" /\ op.arg = 0
    \/ op.name = "onopen" /\ op.rid = "throw"

\* the requests of _subscribeToStale come first among those the task wrote
StaleFirst ==
    \A i, j \in 1..Len(wire) :
        (requests[wire[i].id].k # "stale" /\ requests[wire[j].id].k = "stale")
            => j < i

\* C14: the connect event and the resolution of the connect future happen
\* only when the onConnect hook has completed with success, and then after
\* the re-subscriptions; when the hook fails none of them happens and the
\* transport is closed
C14_AfterHook ==
    [][/\ (ConnectEmitted' \/ Resolved) => HookOk'
       /\ HookOk' => ConnectEmitted' /\ ~connectCallback' /\ StaleFirst'
       /\ HookFailed' =>
             /\ ~ConnectEmitted'
             /\ ~Resolved
             /\ wire' = <<>>
             /\ ws' = 0 \/ socks'[ws'] \in {"closing", "closed"}
             /\ op'.name = "onopen" =>
                   socks'[op'.arg] \in {"closing", "closed"}]_vars

\* the step in which the close handler runs for an open connection
\* (nothing else clears connected)
ClosesOpen == connected /\ ~connected'

\* C15: when an open transport closes, after the close handler no entry is
\* subscribed, no entry without direct listener and indirect reference is
\* left, every entry with a direct listener is kept, connected is false,
\* close is emitted once and a reconnect is scheduled exactly when
\* tryConnect is set
C15_CloseReleases ==
    [][ClosesOpen =>
          /\ \A rid \in Rids :
                cache'[rid] # 0 =>
                    /\ ~items'[cache'[rid]].subscribed
                    /\ \/ items'[cache'[rid]].direct > 0
                       \/ items'[cache'[rid]].indirect > 0
          /\ \A rid \in Rids :
                (cache[rid] # 0 /\ Entry(rid).direct > 0) => cache'[rid] # 0
          /\ Cardinality({i \in 1..Len(events') : events'[i].ev = "close"}) = 1
          /\ reconnectTimers' =
                reconnectTimers + (IF tryConnect THEN 1 ELSE 0)]_vars

\* the step in which the transport opens; the client has no onConnect
\* hook, so _subscribeToAllStale runs in it
OpensPlain == ~connected /\ connected' /\ op'.name = "onopen" /\ op'.rid = "none"

\* the entry of rid is cached and not subscribed
Unsubscribed0(rid) == cache[rid] # 0 /\ ~Entry(rid).subscribed

\* C16 as stated: on open a subscribe.<rid> is issued for every entry that
\* is not subscribed and has a direct listener, indirect references or
\* not; none for an entry held by indirect references only; every
\* snapshot answered is applied through _syncResource
C16_Stated ==
    [][/\ SnapshotApplied
       /\ OpensPlain =>
             \A rid \in Rids :
                 Unsubscribed0(rid) =>
                     /\ Entry(rid).direct > 0 => SubscribeSent(rid)
                     /\ (Entry(rid).direct = 0 /\ Entry(rid).indirect > 0)
                           => ~SubscribeSent(rid)]_vars

\* C16: on open a subscribe.<rid> is issued for every entry that is not
\* subscribed, has a direct listener and no indirect reference; none for
\* an entry with an indirect reference, with direct listeners or without;
\* every snapshot answered is applied through _syncResource
C16_ResubscribesUnreferred ==
    [][/\ SnapshotApplied
       /\ OpensPlain =>
             \A rid \in Rids :
                 Unsubscribed0(rid) =>
                     /\ (Entry(rid).direct > 0 /\ Entry(rid).indirect = 0)
                           => SubscribeSent(rid)
                     /\ Entry(rid).indirect > 0 => ~SubscribeSent(rid)]_vars

\* a transport has just opened, a listened collection is subscribed to
\* again, and a listened model that the collection holds is not
C16_Witness ==
    /\ op.name = "onopen"
    /\ ConnectEmitted
    /\ \E c \in Colls, m \in Models :
          /\ cache[c] # 0 /\ cache[m] # 0
          /\ Entry(c).direct > 0 /\ Entry(c).subscribed
          /\ Entry(m).direct > 0 /\ Entry(m).indirect > 0 /\ ~Entry(m).subscribed
          /\ \E i \in 1..Len(wire) : wire[i].method = "subscribe" /\ wire[i].rid = c

\* the step settles the unsubscribe request id sent for the entry still
\* cached under rid
UnsubAnswered(id, rid) ==
    /\ id \notin answered
    /\ id \in answered'
    /\ requests[id].k = "unsub"
    /\ requests[id].rid = rid
    /\ cache[rid] = requests[id].o

\* the step removes the last direct listener of the subscribed entry of rid
LastOff(rid) ==
    /\ cache[rid] # 0
    /\ Entry(rid).direct = 1
    /\ Entry(rid).subscribed
    /\ connected' = connected
    /\ answered' = answered
    /\ cache'[rid] = 0 \/ items'[cache'[rid]].direct = 0

\* the entry of rid is gone, or it is not subscribed
Released(rid) == cache[rid] = 0 \/ ~Entry(rid).subscribed

\* C17: when the last direct listener leaves a subscribed entry: connected,
\* unsubscribe.<rid> is sent, and when it completes, with success or with
\* an error, the entry is no longer subscribed and is released if nothing
\* holds it; not connected, the same at once
C17_TeardownUnsubscribes ==
    [][\A rid \in Rids :
          /\ (LastOff(rid) /\ ~connected) => Released(rid)'
          /\ (LastOff(rid) /\ connected /\ cache'[rid] # 0) =>
                \E i \in 1..Len(wire') :
                    wire'[i].method = "unsubscribe" /\ wire'[i].rid = rid
          /\ \A id \in 1..MaxReq :
                UnsubAnswered(id, rid) =>
                    /\ Released(rid)'
                    /\ cache'[rid] # 0 =>
                          \/ items'[cache'[rid]].direct > 0
                          \/ items'[cache'[rid]].indirect > 0]_vars

\* C18: when a transport closes, the table of pending requests keeps no
\* record of a request sent on it
C18_CloseDropsRequests ==
    [][\A k \in 1..MaxSock, id \in 1..MaxReq :
          (socks[k] # "closed" /\ socks'[k] = "closed" /\ requests[id].sock = k)
              => requests'[id] = NoRequest]_vars

\* the subscribe requests of getResource for rid that wait for their
\* response, and the calls of getResource for rid that wait for the connect
\* future
GetsInFlight(rid) ==
    {id \in 1..MaxReq : requests[id].k = "get" /\ requests[id].rid = rid}
GetsWaiting(rid) ==
    {i \in 1..Len(waiters) : waiters[i].k = "get" /\ waiters[i].rid = rid}

\* C19: getResource for a rid that is cached, with its subscribe in flight
\* or with its item bound, issues no request and changes nothing, so that
\* there is never more than the one subscribe of getResource for a rid
C19_GetResourceOnce ==
    [][/\ (op'.name = "getModel" /\ cache[op'.rid] # 0) =>
             /\ requests' = requests
             /\ waiters' = waiters
             /\ issued' = issued
             /\ reqId' = reqId
             /\ wire' = <<>>
             /\ cache' = cache
             /\ items' = items
       /\ \A rid \in Rids :
             Cardinality(GetsInFlight(rid)') + Cardinality(GetsWaiting(rid)') <= 1]_vars

\* what C20 says of the entry of rid after its getResource has failed: it
\* is removed, unless it has a direct listener or an indirect reference,
\* and then it is no longer subscribed
FailedGetReleased(rid) ==
    IF Entry(rid).direct = 0 /\ Entry(rid).indirect = 0
    THEN cache'[rid] = 0
    ELSE cache'[rid] # 0 /\ ~items'[cache'[rid]].subscribed

\* the step answers with an error the subscribe id of getResource for the
\* entry cached under rid
GetRefused(id, rid) ==
    /\ id \notin answered
    /\ id \in answered'
    /\ requests[id].k = "get"
    /\ requests[id].rid = rid
    /\ cache[rid] = requests[id].o
    /\ Refused(rid)'

\* the step rejects the connect future on which the getResource for the
\* entry cached under rid waits
ConnectFailed(rid) ==
    /\ connectCallback
    /\ ~connectCallback'
    /\ ~connectPromise'
    /\ \E i \in GetsWaiting(rid) : cache[rid] = waiters[i].o

\* C20: when the subscribe of getResource fails, by an error of the server
\* or by a failed connect, the entry is no longer subscribed and is
\* removed unless it has a direct listener or an indirect reference; a
\* getResource for a rid that is not cached issues a subscribe
C20_FailedGetReleases ==
    [][\A rid \in Rids :
          /\ \A id \in 1..MaxReq : GetRefused(id, rid) => FailedGetReleased(rid)
          /\ ConnectFailed(rid) => FailedGetReleased(rid)
          /\ (op'.name = "getModel" /\ op'.rid = rid /\ cache[rid] = 0) =>
                \/ Len(issued') > Len(issued)
                \/ GetsWaiting(rid)' # {}]_vars

\* C24: whenever connected is true the transport handle ws is set, and
\* every request handed to _sendNow has been written to the transport, so
\* that no record is left for a request that could not be written
C24_ConnectedHasTransport ==
    /\ connected => ws # 0
    /\ \A i \in 1..Len(issued) : issued[i].write = "sent"

\* the transports that are opening or open
Live == {k \in 1..MaxSock : socks[k] \in {"connecting", "open"}}

\* the step delivers the close event of transport k after a later connect()
\* has replaced it
ClosesSuperseded(k) ==
    /\ socks[k] # "closed"
    /\ socks'[k] = "closed"
    /\ ws # 0
    /\ ws # k

\* C25: at most one transport is opening or open and ws is that transport;
\* the close event of a superseded transport leaves the handle, the connect
\* future, the cache entries and the reconnect timers as they are
C25_OneTransport ==
    [][/\ \A k \in Live' : Live' = {k} /\ ws' = k
       /\ \A k \in 1..MaxSock :
             ClosesSuperseded(k) =>
                /\ ws' = ws
                /\ connectPromise' = connectPromise
                /\ connectCallback' = connectCallback
                /\ cache' = cache
                /\ items' = items
                /\ reconnectTimers' = reconnectTimers]_vars

\* no id occurs twice in q
NoDup(q) == \A i, j \in 1..Len(q) : q[i] = q[j] => i = j

\* the places in the calls of _patchDiff of the calls of one callback
CallsOf(kind) == {i \in 1..Len(diff.calls) : diff.calls[i].op = kind}

\* C23: for a and b without duplicates, _patchDiff makes every onRemove
\* before any onAdd, the onRemove calls at decreasing and the onAdd calls
\* at increasing indexes, each onAdd with the place its element has in b;
\* it calls onKeep once, and no other callback, for each element of a
\* longest common subsequence, with the indexes the element has in a and b
C23_PatchDiffOrder ==
    (diff.done /\ NoDup(diff.a) /\ NoDup(diff.b)) =>
        LET c == diff.calls
        IN  /\ \A i \in CallsOf("remove"), j \in CallsOf("add") : i < j
            /\ \A i, j \in CallsOf("remove") : i < j => c[i].idx > c[j].idx
            /\ \A i, j \in CallsOf("add") : i < j => c[i].idx < c[j].idx
            /\ \A i \in CallsOf("add") :
                  /\ c[i].idx = c[i].n
                  /\ At0(diff.b, c[i].idx) = c[i].id
            /\ \A i \in CallsOf("keep") :
                  /\ At0(diff.a, c[i].m) = c[i].id
                  /\ At0(diff.b, c[i].n) = c[i].id
                  /\ \A j \in 1..Len(c) : c[j].id = c[i].id => j = i
            /\ Cardinality(CallsOf("keep"))
                  = LcsCell(diff.a, diff.b, Len(diff.a), Len(diff.b))

\* _patchDiff has run on two sequences without duplicates and has made a
\* call of each of its three callbacks
C23_Witness ==
    /\ diff.done
    /\ NoDup(diff.a)
    /\ NoDup(diff.b)
    /\ CallsOf("remove") # {}
    /\ CallsOf("add") # {}
    /\ CallsOf("keep") # {}

\* C21: when the server answers the call of new that createModel has sent
\* with a result {rid, data}, the then of createModel ends with an entry
\* for that rid in the cache, subscribed
C21_CreatedIsCached ==
    [][op'.name = "created" =>
          /\ cache'[op'.rid] # 0
          /\ items'[cache'[op'.rid]].subscribed]_vars

\* the model m is cached with a direct listener and with its one indirect
\* reference as its only other hold (c1 is the only collection, so that
\* the reference is that of c1)
ObservedChild(m) ==
    /\ cache[m] # 0
    /\ Entry(m).direct > 0
    /\ Entry(m).indirect = 1
    /\ ~Entry(m).subscribed

\* the task has written subscribe.<m> and, after it, unsubscribe.<c>
SubscribedAhead(m, c) ==
    \E i, j \in 1..Len(wire) :
        /\ i < j
        /\ wire[i].method = "subscribe"
        /\ wire[i].rid = m
        /\ wire[j].method = "unsubscribe"
        /\ wire[j].rid = c

\* C22: when the last direct listener leaves a subscribed collection while
\* connected, every child with a direct listener, one indirect reference
\* and no subscription is marked subscribed and subscribe.<child> is sent
\* ahead of the unsubscribe of the collection; and when the collection is
\* released, every child with a direct listener stays in the cache
C22_ChildrenResubscribed ==
    [][\A c \in Colls, m \in Models :
          /\ (LastOff(c) /\ connected /\ ObservedChild(m)) =>
                /\ cache'[m] # 0
                /\ items'[cache'[m]].subscribed
                /\ SubscribedAhead(m, c)'
          /\ \A id \in 1..MaxReq :
                (/\ UnsubAnswered(id, c)
                 /\ cache'[c] = 0
                 /\ cache[m] # 0
                 /\ Entry(m).direct > 0) => cache'[m] # 0]_vars

====
